---- MODULE Spec2Model ----
(***************************************************************************)
(* Model of the applist plugin (src/src/lib.rs): the descriptor parser     *)
(* parse_desktop_file, the scan find_apps, and the three exported calls    *)
(* set_data, get_entries and handle_selection.                             *)
(*                                                                         *)
(* Text is a sequence of one-character strings, so that trimming,          *)
(* splitting, case folding and path decomposition are computed.  A file's  *)
(* content is the sequence of lines that str::lines() yields.              *)
(*                                                                         *)
(* Spec is the plugin as the host drives it: RESP_DATA and REQ_DATA are    *)
(* the plugin's statics, fs is the file system the scan reads, call is the *)
(* exported call that has just returned with what it returned, and alive   *)
(* is false once a panic in an exported call has aborted the process.      *)
(* SpecParse is parse_desktop_file alone, applied to every text of Texts.  *)
(***************************************************************************)
EXTENDS Integers, Sequences, FiniteSets, TLC

VARIABLES RESP_DATA, REQ_DATA, fs, call, alive, content, origin, parsed

vars == <<RESP_DATA, REQ_DATA, fs, call, alive, content, origin, parsed>>

pluginVars == <<RESP_DATA, REQ_DATA, fs, call, alive>>

parserVars == <<content, origin, parsed>>

----------------------------------------------------------------------------
(* Bounds *)

MaxLines == 4

MaxPaths == 2

----------------------------------------------------------------------------
(* Option<T> *)

None == [tag |-> "None"]

Some(x) == [tag |-> "Some", val |-> x]

----------------------------------------------------------------------------
(* Text primitives of the Rust standard library, as the parser uses them *)

is_whitespace(c) == c \in {" ", "\t", "\r"}

RECURSIVE trim_start(_)
trim_start(s) ==
    IF s = <<>> THEN <<>>
    ELSE IF is_whitespace(Head(s)) THEN trim_start(Tail(s))
    ELSE s

RECURSIVE trim_end(_)
trim_end(s) ==
    IF s = <<>> THEN <<>>
    ELSE IF is_whitespace(s[Len(s)]) THEN trim_end(SubSeq(s, 1, Len(s) - 1))
    ELSE s

trim(s) == trim_end(trim_start(s))

starts_with(s, c) == s # <<>> /\ Head(s) = c

\* str::split_once: split at the first occurrence of the delimiter
split_once(s, d) ==
    LET hits == {i \in 1..Len(s) : s[i] = d}
    IN  IF hits = {} THEN None
        ELSE LET i == CHOOSE k \in hits : \A j \in hits : k <= j
             IN  Some([key |-> SubSeq(s, 1, i - 1), value |-> SubSeq(s, i + 1, Len(s))])

UpperCase == <<"A", "B", "C", "D", "E", "F", "G", "H", "I", "J", "K", "L", "M",
               "N", "O", "P", "Q", "R", "S", "T", "U", "V", "W", "X", "Y", "Z">>

LowerCase == <<"a", "b", "c", "d", "e", "f", "g", "h", "i", "j", "k", "l", "m",
               "n", "o", "p", "q", "r", "s", "t", "u", "v", "w", "x", "y", "z">>

to_ascii_lowercase(c) ==
    IF \E i \in 1..26 : UpperCase[i] = c
    THEN LowerCase[CHOOSE i \in 1..26 : UpperCase[i] = c]
    ELSE c

eq_exact(a, b) == a = b

eq_ignore_ascii_case(a, b) ==
    /\ Len(a) = Len(b)
    /\ \A i \in 1..Len(a) : to_ascii_lowercase(a[i]) = to_ascii_lowercase(b[i])

----------------------------------------------------------------------------
(* Literals of the parser *)

DesktopEntryHeader == <<"[", "D", "e", "s", "k", "t", "o", "p", " ", "E", "n", "t", "r", "y", "]">>

KeyName == <<"N", "a", "m", "e">>

KeyIcon == <<"I", "c", "o", "n">>

KeyComment == <<"C", "o", "m", "m", "e", "n", "t">>

KeyDescription == <<"D", "e", "s", "c", "r", "i", "p", "t", "i", "o", "n">>

KeyNoDisplay == <<"N", "o", "D", "i", "s", "p", "l", "a", "y">>

KeyHidden == <<"H", "i", "d", "d", "e", "n">>

StrTrue == <<"t", "r", "u", "e">>

StrDesktop == <<"d", "e", "s", "k", "t", "o", "p">>

----------------------------------------------------------------------------
(* parse_desktop_file *)

ParserStart ==
    [name |-> None, icon |-> None, description |-> None,
     in_desktop_entry |-> FALSE, no_display |-> FALSE, hidden |-> FALSE]

\* a faulty variant: the flag values are compared with "true" exactly
MatchKey_CaseSensitive(st, key, value) ==
    IF key = KeyName THEN [st EXCEPT !.name = Some(trim(value))]
    ELSE IF key = KeyIcon THEN [st EXCEPT !.icon = Some(trim(value))]
    ELSE IF key \in {KeyComment, KeyDescription}
         THEN [st EXCEPT !.description = Some(trim(value))]
    ELSE IF key = KeyNoDisplay
         THEN [st EXCEPT !.no_display = eq_exact(trim(value), StrTrue)]
    ELSE IF key = KeyHidden
         THEN [st EXCEPT !.hidden = eq_exact(trim(value), StrTrue)]
    ELSE st

\* the match on key.trim() of one key-value line inside the section
MatchKey(st, key, value) ==
    IF key = KeyName THEN [st EXCEPT !.name = Some(trim(value))]
    ELSE IF key = KeyIcon THEN [st EXCEPT !.icon = Some(trim(value))]
    ELSE IF key \in {KeyComment, KeyDescription}
         THEN [st EXCEPT !.description = Some(trim(value))]
    ELSE IF key = KeyNoDisplay
         THEN [st EXCEPT !.no_display = eq_ignore_ascii_case(trim(value), StrTrue)]
    ELSE IF key = KeyHidden
         THEN [st EXCEPT !.hidden = eq_ignore_ascii_case(trim(value), StrTrue)]
    ELSE st

\* a faulty variant: key-value lines are honoured outside the section too
ParseLine_AnySection(st, rawline) ==
    LET line == trim(rawline)
    IN  IF line = DesktopEntryHeader THEN [st EXCEPT !.in_desktop_entry = TRUE]
        ELSE IF starts_with(line, "[") THEN [st EXCEPT !.in_desktop_entry = FALSE]
        ELSE LET kv == split_once(line, "=")
             IN  IF kv = None THEN st
                 ELSE MatchKey(st, trim(kv.val.key), kv.val.value)

\* the body of the loop over content.lines()
ParseLine(st, rawline) ==
    LET line == trim(rawline)
    IN  IF line = DesktopEntryHeader THEN [st EXCEPT !.in_desktop_entry = TRUE]
        ELSE IF starts_with(line, "[") THEN [st EXCEPT !.in_desktop_entry = FALSE]
        ELSE IF ~st.in_desktop_entry THEN st
        ELSE LET kv == split_once(line, "=")
             IN  IF kv = None THEN st
                 ELSE MatchKey(st, trim(kv.val.key), kv.val.value)

RECURSIVE ParseLines(_, _, _)
ParseLines(lines, i, st) ==
    IF i > Len(lines) THEN st
    ELSE ParseLines(lines, i + 1, ParseLine(st, lines[i]))

\* a faulty variant: a record needs a description as well as a name and an icon
ParseResult_NeedsDescription(st, path) ==
    IF st.no_display \/ st.hidden THEN None
    ELSE IF st.name # None /\ st.icon # None /\ st.description # None
         THEN Some([name |-> st.name.val, description |-> st.description,
                    path |-> path, icon |-> Some(st.icon.val), emoji |-> None])
    ELSE None

\* the result built from the parser's final state
ParseResult(st, path) ==
    IF st.no_display \/ st.hidden THEN None
    ELSE IF st.name # None /\ st.icon # None
         THEN Some([name |-> st.name.val, description |-> st.description,
                    path |-> path, icon |-> Some(st.icon.val), emoji |-> None])
    ELSE None

parse_desktop_file(text, path) == ParseResult(ParseLines(text, 1, ParserStart), path)

----------------------------------------------------------------------------
(* Paths and the file system the scan looks at *)

PathHome == <<"/", "h", "/", "a", ".", "d", "e", "s", "k", "t", "o", "p">>

PathUsr == <<"/", "u", "/", "b", ".", "d", "e", "s", "k", "t", "o", "p">>

PathTmp == <<"/", "t", "m", "p", "/", "c", ".", "d", "e", "s", "k", "t", "o", "p">>

Paths == {PathHome, PathUsr, PathTmp}

\* the file system is keyed by these names of the three paths
PathNames == {"home", "usr", "tmp"}

PathName(path) == IF path = PathHome THEN "home" ELSE IF path = PathUsr THEN "usr" ELSE "tmp"

\* Path::file_name: what follows the last separator
file_name(path) ==
    LET seps == {i \in 1..Len(path) : path[i] = "/"}
    IN  IF seps = {} THEN path
        ELSE SubSeq(path, (CHOOSE k \in seps : \A j \in seps : j <= k) + 1, Len(path))

\* Path::extension: what follows the last dot of the file name, if that dot
\* is not the file name's first character
extension(path) ==
    LET f == file_name(path)
        dots == {i \in 2..Len(f) : f[i] = "."}
    IN  IF dots = {} THEN None
        ELSE Some(SubSeq(f, (CHOOSE k \in dots : \A j \in dots : j <= k) + 1, Len(f)))

----------------------------------------------------------------------------
(* Descriptor lines and descriptor files the inputs are drawn from *)

L_Header == <<"[", "D", "e", "s", "k", "t", "o", "p", " ", "E", "n", "t", "r", "y", "]">>

L_Other == <<" ", "[", "X", "]">>

L_Name == <<"N", "a", "m", "e", " ", "=", " ", "F", "o", "o">>

L_NameBar == <<"N", "a", "m", "e", "=", "b", "a", "r">>

L_Icon == <<"I", "c", "o", "n", "=", "i">>

L_Comment == <<"C", "o", "m", "m", "e", "n", "t", "=", "c">>

L_Description == <<"D", "e", "s", "c", "r", "i", "p", "t", "i", "o", "n", "=", "d">>

L_HiddenTrue == <<"H", "i", "d", "d", "e", "n", "=", "T", "r", "u", "e">>

L_HiddenFalse == <<"H", "i", "d", "d", "e", "n", "=", "f", "a", "l", "s", "e">>

L_NoDisplayTrue == <<"N", "o", "D", "i", "s", "p", "l", "a", "y", "=", "T", "R", "U", "E">>

LineAlphabet ==
    {L_Header, L_Other, L_Name, L_Icon, L_Comment, L_Description,
     L_HiddenTrue, L_HiddenFalse, L_NoDisplayTrue}

\* the texts of at most MaxLines lines, alone or below a [Desktop Entry] line
Bodies == UNION {[1..n -> LineAlphabet] : n \in 0..MaxLines}

Texts == Bodies \cup {<<L_Header>> \o b : b \in Bodies}

DescFoo == <<L_Header, L_Name, L_Icon>>

DescFooHidden == <<L_Header, L_Name, L_Icon, L_HiddenTrue>>

DescBar == <<L_Header, L_NameBar, L_Icon>>

\* fs[PathName(p)] names what is found at path p: nothing ("absent"), a regular file
\* that cannot be read as text ("unreadable"), or one of the descriptors
Descriptors == [foo |-> DescFoo, fooHidden |-> DescFooHidden, bar |-> DescBar]

FileStates(p) ==
    IF p = PathHome THEN {"foo", "unreadable", "absent"}
    ELSE IF p = PathUsr THEN {"foo", "fooHidden", "bar"}
    ELSE {"foo"}

FileSystems == {f \in [PathNames -> {"foo", "fooHidden", "bar", "unreadable", "absent"}] :
                   \A p \in Paths : f[PathName(p)] \in FileStates(p)}

\* Path::is_file: a regular file exists at the path
is_file(path) == fs[PathName(path)] # "absent"

\* fs::read_to_string: fails when the file cannot be opened or read, is not
\* UTF-8, or has vanished since is_file looked at it
read_to_string(path) ==
    IF fs[PathName(path)] \in {"absent", "unreadable"} THEN [tag |-> "Err"]
    ELSE [tag |-> "Ok", val |-> Descriptors[fs[PathName(path)]]]

----------------------------------------------------------------------------
(* The arrays the host hands over with set_data *)

NullPtr == [tag |-> "Null"]

NonUtf8 == [tag |-> "NonUtf8"]

Str(s) == [tag |-> "Str", val |-> s]

PathPtrs == {NullPtr, NonUtf8} \cup {Str(p) : p \in Paths}

PathsArray(ptrs) == Some([paths |-> Some(ptrs), length |-> Len(ptrs)])

NullPathsArray == Some([paths |-> None, length |-> 0])

\* a null array counts as one pointer handed over
ArraySize(a) == IF a = None \/ a.val.paths = None THEN 1 ELSE a.val.length

PathsArrays ==
    {None, NullPathsArray}
      \cup {PathsArray(s) : s \in UNION {[1..n -> PathPtrs] : n \in 0..MaxPaths}}

\* the pointers of an array that are null or not UTF-8
BadPtrs(a) ==
    IF a = None \/ a.val.paths = None THEN {}
    ELSE {i \in 1..a.val.length : a.val.paths.val[i].tag # "Str"}

\* the pairs (local_paths, xdg_paths) of one set_data call: at most MaxPaths
\* pointers in all, at most one of them null or not UTF-8
HostData ==
    {d \in PathsArrays \X PathsArrays :
        /\ ArraySize(d[1]) + ArraySize(d[2]) <= MaxPaths
        /\ Cardinality(BadPtrs(d[1])) + Cardinality(BadPtrs(d[2])) <= 1}

----------------------------------------------------------------------------
(* find_apps *)

\* seen_names.insert(name) and, when the name is new, apps.push(app_info)
InsertApp(st, app) ==
    IF app.name \in st.seen_names THEN st
    ELSE [apps |-> Append(st.apps, app), seen_names |-> st.seen_names \cup {app.name}]

\* a faulty variant: the name is recorded as seen before the hidden flags are looked at
VisitPath_HiddenSeen(st, ptr) ==
    IF ptr.tag = "Null" THEN st
    ELSE IF ptr.tag = "NonUtf8" THEN st
    ELSE IF ~is_file(ptr.val) THEN st
    ELSE IF extension(ptr.val) # Some(StrDesktop) THEN st
    ELSE LET read == read_to_string(ptr.val)
         IN  IF read.tag = "Err" THEN st
             ELSE LET final == ParseLines(read.val, 1, ParserStart)
                      app_info == ParseResult(final, ptr.val)
                  IN  IF final.name = None \/ final.icon = None THEN st
                      ELSE IF app_info = None
                           THEN [st EXCEPT !.seen_names = @ \cup {final.name.val}]
                      ELSE InsertApp(st, app_info.val)

\* the body of the loop over the path pointers
VisitPath(st, ptr) ==
    IF ptr.tag = "Null" THEN st
    ELSE IF ptr.tag = "NonUtf8" THEN st
    ELSE IF ~is_file(ptr.val) THEN st
    ELSE IF extension(ptr.val) # Some(StrDesktop) THEN st
    ELSE LET read == read_to_string(ptr.val)
         IN  IF read.tag = "Err" THEN st
             ELSE LET app_info == parse_desktop_file(read.val, ptr.val)
                  IN  IF app_info = None THEN st ELSE InsertApp(st, app_info.val)

RECURSIVE ScanPaths(_, _, _)
ScanPaths(ptrs, i, st) ==
    IF i > Len(ptrs) THEN st
    ELSE ScanPaths(ptrs, i + 1, VisitPath(st, ptrs[i]))

\* a pointer whose file the scan cannot read
Unusable(ptr) ==
    \/ ptr.tag \in {"Null", "NonUtf8"}
    \/ ptr.tag = "Str" /\ fs[PathName(ptr.val)] \in {"absent", "unreadable"}

\* the NUL-terminated bytes format!("{}\0", s) leaks to the host
c_string(s) == s \o <<"NUL">>

\* what the host reads through a char pointer: the bytes before the first NUL
c_str_value(bytes) ==
    LET nuls == {i \in 1..Len(bytes) : bytes[i] = "NUL"}
    IN  IF nuls = {} THEN bytes
        ELSE SubSeq(bytes, 1, (CHOOSE k \in nuls : \A j \in nuls : k <= j) - 1)

\* a faulty variant: the scan gives up at the first pointer it cannot use
find_apps_StopAtError(paths) ==
    IF paths = None THEN <<>>
    ELSE IF paths.val.paths = None THEN <<>>
    ELSE LET slice == SubSeq(paths.val.paths.val, 1, paths.val.length)
             bad == {i \in 1..Len(slice) : Unusable(slice[i])}
             upto == IF bad = {} THEN Len(slice)
                     ELSE (CHOOSE k \in bad : \A j \in bad : k <= j) - 1
         IN  ScanPaths(SubSeq(slice, 1, upto), 1, [apps |-> <<>>, seen_names |-> {}]).apps

\* a faulty variant: the names returned by the previous request are still marked seen
find_apps_KeepSeen(paths) ==
    IF paths = None THEN <<>>
    ELSE IF paths.val.paths = None THEN <<>>
    ELSE LET slice == SubSeq(paths.val.paths.val, 1, paths.val.length)
             kept == IF call.op = "get_entries"
                     THEN {c_str_value(call.val[i].name) : i \in 1..Len(call.val)}
                     ELSE {}
         IN  ScanPaths(slice, 1, [apps |-> <<>>, seen_names |-> kept]).apps

find_apps(paths) ==
    IF paths = None THEN <<>>
    ELSE IF paths.val.paths = None THEN <<>>
    ELSE LET slice == SubSeq(paths.val.paths.val, 1, paths.val.length)
         IN  ScanPaths(slice, 1, [apps |-> <<>>, seen_names |-> {}]).apps

----------------------------------------------------------------------------
(* The exported calls *)

\* one AppInfo marshalled into the Entry the host reads
ToEntry(app) ==
    [name |-> c_string(app.name),
     description |-> IF app.description = None THEN None
                     ELSE Some(c_string(app.description.val)),
     value |-> c_string(app.path),
     icon |-> IF app.icon = None THEN None ELSE Some(c_string(app.icon.val)),
     emoji |-> None]

\* what the user has typed in the host when it asks for entries; the host
\* has it, get_entries() has no parameter to receive it.  call holds the
\* exported call that has just returned and what it returned; again tells
\* that the call before it was a get_entries too.
QueryNone == <<>>

QueryFo == <<"f", "O">>

Queries == {QueryNone, QueryFo}

set_data(local_paths, xdg_paths) ==
    /\ alive
    /\ RESP_DATA' = [paths |-> None, light_paths |-> None,
                     local_paths |-> local_paths, xdg_paths |-> xdg_paths]
    /\ call' = [op |-> "none"]
    /\ UNCHANGED <<REQ_DATA, fs, alive, parserVars>>

get_entries(query) ==
    /\ alive
    /\ REQ_DATA' = [REQ_DATA EXCEPT !.local_paths = FALSE, !.xdg_paths = FALSE]
    /\ LET apps == find_apps(RESP_DATA.local_paths) \o find_apps(RESP_DATA.xdg_paths)
       IN  call' = [op |-> "get_entries", query |-> query,
                    again |-> (call.op = "get_entries"),
                    val |-> [i \in 1..Len(apps) |-> ToEntry(apps[i])]]
    /\ UNCHANGED <<RESP_DATA, fs, alive, parserVars>>

\* gio: "missing" when the helper cannot be started, else how it exited.
\* A panic in an extern "C" function aborts the process.
handle_selection(selection, gio) ==
    /\ alive
    /\ LET outcome == IF selection.tag # "Str" THEN "abort"
                      ELSE IF gio = "missing" THEN "abort"
                      ELSE IF gio = "failure" THEN "false"
                      ELSE "true"
       IN  /\ call' = [op |-> "handle_selection", outcome |-> outcome,
                        gio |-> IF selection.tag # "Str" THEN "unused" ELSE gio]
           /\ alive' = (outcome # "abort")
    /\ UNCHANGED <<RESP_DATA, REQ_DATA, fs, parserVars>>

\* the environment: a file is created, removed, rewritten or made unreadable
FsChange(p, f) ==
    /\ alive
    /\ fs[PathName(p)] # f
    /\ fs' = [fs EXCEPT ![PathName(p)] = f]
    /\ call' = [op |-> "none"]
    /\ UNCHANGED <<RESP_DATA, REQ_DATA, alive, parserVars>>

Init ==
    /\ RESP_DATA = [paths |-> None, light_paths |-> None,
                    local_paths |-> None, xdg_paths |-> None]
    /\ REQ_DATA = [paths |-> FALSE, light_paths |-> FALSE,
                   local_paths |-> TRUE, xdg_paths |-> TRUE]
    /\ fs \in FileSystems
    /\ call = [op |-> "none"]
    /\ alive = TRUE
    /\ content = <<>>
    /\ origin = PathHome
    /\ parsed = [tag |-> "Pending"]

Next ==
    \/ \E d \in HostData : set_data(d[1], d[2])
    \/ \E q \in Queries : get_entries(q)
    \/ \E s \in {Str(PathHome), NonUtf8}, g \in {"missing", "failure", "success"} :
          handle_selection(s, g)
    \/ \E p \in Paths : \E f \in FileStates(p) : FsChange(p, f)

Spec == Init /\ [][Next]_vars

----------------------------------------------------------------------------
(* The parser on its own, on every text of Texts *)

ParseFile ==
    /\ parsed.tag = "Pending"
    /\ parsed' = parse_desktop_file(content, origin)
    /\ UNCHANGED <<content, origin, pluginVars>>

InitParse ==
    /\ RESP_DATA = [paths |-> None, light_paths |-> None,
                    local_paths |-> None, xdg_paths |-> None]
    /\ REQ_DATA = [paths |-> FALSE, light_paths |-> FALSE,
                   local_paths |-> TRUE, xdg_paths |-> TRUE]
    /\ fs = [p \in PathNames |-> "foo"]
    /\ call = [op |-> "none"]
    /\ alive = TRUE
    /\ content \in Texts
    /\ origin = PathHome
    /\ parsed = [tag |-> "Pending"]

NextParse == ParseFile

SpecParse == InitParse /\ [][NextParse]_vars

----------------------------------------------------------------------------
(* What a descriptor text says, read off the text line by line *)

IsHeaderLine(l) == starts_with(trim(l), "[")

IsEntryHeader(l) == trim(l) = DesktopEntryHeader

\* line i is a plain line whose nearest header above it is [Desktop Entry]
InEntrySection(text, i) ==
    /\ ~IsHeaderLine(text[i])
    /\ \E h \in 1..(i - 1) :
          /\ IsEntryHeader(text[h])
          /\ \A j \in (h + 1)..(i - 1) : ~IsHeaderLine(text[j])

LineKey(l) ==
    LET kv == split_once(trim(l), "=")
    IN  IF kv = None THEN None ELSE Some(trim(kv.val.key))

LineValue(l) == trim(split_once(trim(l), "=").val.value)

\* the lines of the entry section that set the key
KeyLines(text, key) ==
    {i \in 1..Len(text) : InEntrySection(text, i) /\ LineKey(text[i]) = Some(key)}

LastOf(S) == CHOOSE k \in S : \A j \in S : j <= k

LastValue(text, key) == LineValue(text[LastOf(KeyLines(text, key))])

SaysTrue(l) == eq_ignore_ascii_case(LineValue(l), StrTrue)

\* some Hidden or NoDisplay line of the entry section says true
SomeFlagLineTrue(text) ==
    \E i \in KeyLines(text, KeyHidden) \cup KeyLines(text, KeyNoDisplay) : SaysTrue(text[i])

\* the last Hidden line, or the last NoDisplay line, of the entry section says true
LastFlagLineTrue(text) ==
    \E key \in {KeyHidden, KeyNoDisplay} :
        /\ KeyLines(text, key) # {}
        /\ SaysTrue(text[LastOf(KeyLines(text, key))])

HasNameAndIcon(text) == KeyLines(text, KeyName) # {} /\ KeyLines(text, KeyIcon) # {}

\* the text without the plain lines that lie outside the entry section
RECURSIVE StripOutside(_, _)
StripOutside(text, i) ==
    IF i > Len(text) THEN <<>>
    ELSE IF IsHeaderLine(text[i]) \/ InEntrySection(text, i)
         THEN <<text[i]>> \o StripOutside(text, i + 1)
    ELSE StripOutside(text, i + 1)

OutsideLines(text) ==
    {i \in 1..Len(text) : ~IsHeaderLine(text[i]) /\ ~InEntrySection(text, i)}

Parsed == parsed.tag # "Pending"

----------------------------------------------------------------------------
(* C2 *)

\* C2 as stated: a text with some Hidden=true or NoDisplay=true line (any
\* letter case) in the entry section yields no record, whatever else it holds.
C2_AnyFlagLineHides ==
    (Parsed /\ SomeFlagLineTrue(content)) => parsed = None

\* C2 amended: a text whose last Hidden line or last NoDisplay line in the
\* entry section says true (any letter case) yields no record, even when Name
\* and Icon are present.
C2_LastFlagLineHides ==
    (Parsed /\ LastFlagLineTrue(content)) => parsed = None

C2_Witness ==
    /\ Parsed
    /\ LastFlagLineTrue(content)
    /\ HasNameAndIcon(content)
    /\ parsed = None

----------------------------------------------------------------------------
(* C3 *)

C3_Rejects == (Parsed /\ ~HasNameAndIcon(content)) => parsed = None

C3_RecordFields ==
    (Parsed /\ HasNameAndIcon(content) /\ ~LastFlagLineTrue(content)) =>
        /\ parsed.tag = "Some"
        /\ parsed.val.name = LastValue(content, KeyName)
        /\ parsed.val.icon = Some(LastValue(content, KeyIcon))
        /\ parsed.val.path = origin

\* C3 as stated: no record without a Name or an Icon in the entry section;
\* otherwise, when not hidden, a record with the trimmed name and icon, the
\* origin path, and no description when no Comment is given.
C3_NoCommentNoDescription ==
    /\ C3_Rejects
    /\ C3_RecordFields
    /\ (Parsed /\ parsed.tag = "Some" /\ KeyLines(content, KeyComment) = {})
          => parsed.val.description = None

\* C3 amended: the same, the description being absent when neither a Comment
\* nor a Description line is given in the entry section.
C3_NoCommentNorDescription ==
    /\ C3_Rejects
    /\ C3_RecordFields
    /\ (Parsed /\ parsed.tag = "Some"
          /\ KeyLines(content, KeyComment) \cup KeyLines(content, KeyDescription) = {})
          => parsed.val.description = None

C3_Witness ==
    /\ Parsed
    /\ HasNameAndIcon(content)
    /\ ~LastFlagLineTrue(content)
    /\ KeyLines(content, KeyComment) \cup KeyLines(content, KeyDescription) = {}
    /\ parsed.tag = "Some"
    /\ parsed.val.description = None
    /\ Len(parsed.val.name) < Len(split_once(content[LastOf(KeyLines(content, KeyName))], "=").val.value)

----------------------------------------------------------------------------
(* C8 *)

\* C8: plain lines before the first [Desktop Entry] header or inside another
\* section have no effect: the result, and the name, icon, description and
\* flags the parser ends with, are those of the text without these lines.
C8_OutsideLinesIgnored ==
    Parsed =>
        /\ parsed = parse_desktop_file(StripOutside(content, 1), origin)
        /\ ParseLines(content, 1, ParserStart)
             = ParseLines(StripOutside(content, 1), 1, ParserStart)

C8_Witness ==
    /\ Parsed
    /\ parsed.tag = "Some"
    /\ \E i \in OutsideLines(content) :
          /\ LineKey(content[i]) = Some(KeyHidden)
          /\ SaysTrue(content[i])
          /\ \E h \in 1..(i - 1) : IsHeaderLine(content[h]) /\ ~IsEntryHeader(content[h])
          /\ \E h \in 1..(i - 1) : IsEntryHeader(content[h])

----------------------------------------------------------------------------
(* What a scan should find, read off the path lists and the file system *)

\* the pointers of an array, none for a null array
Slice(a) ==
    IF a = None \/ a.val.paths = None THEN <<>>
    ELSE SubSeq(a.val.paths.val, 1, a.val.length)

Readable(ptr) == ptr.tag = "Str" /\ fs[PathName(ptr.val)] \notin {"absent", "unreadable"}

TextAt(ptr) == Descriptors[fs[PathName(ptr.val)]]

DotDesktop == <<".">> \o StrDesktop

EndsWithDesktop(path) ==
    /\ Len(path) > Len(DotDesktop)
    /\ SubSeq(path, Len(path) - Len(DotDesktop) + 1, Len(path)) = DotDesktop
    /\ path[Len(path) - Len(DotDesktop)] # "/"

\* a descriptor file that is to be listed: readable, named *.desktop, with a
\* name and an icon, and neither hidden nor not-for-display
Eligible(ptr) ==
    /\ Readable(ptr)
    /\ EndsWithDesktop(ptr.val)
    /\ HasNameAndIcon(TextAt(ptr))
    /\ ~LastFlagLineTrue(TextAt(ptr))

\* a descriptor file left out only because it is hidden or not-for-display
HiddenAt(ptr) ==
    /\ Readable(ptr)
    /\ EndsWithDesktop(ptr.val)
    /\ HasNameAndIcon(TextAt(ptr))
    /\ LastFlagLineTrue(TextAt(ptr))

NameAt(ptr) == LastValue(TextAt(ptr), KeyName)

\* the i-th pointer is the first eligible file of its name in the list
FirstOfName(ptrs, i) ==
    /\ Eligible(ptrs[i])
    /\ \A j \in 1..(i - 1) : Eligible(ptrs[j]) => NameAt(ptrs[j]) # NameAt(ptrs[i])

RECURSIVE Expected(_, _)
Expected(ptrs, i) ==
    IF i > Len(ptrs) THEN <<>>
    ELSE IF FirstOfName(ptrs, i)
         THEN <<[name |-> NameAt(ptrs[i]), value |-> ptrs[i].val]>> \o Expected(ptrs, i + 1)
    ELSE Expected(ptrs, i + 1)

\* the catalog of one request: the local list's scan, then the xdg list's
ExpectedCatalog ==
    Expected(Slice(RESP_DATA.local_paths), 1) \o Expected(Slice(RESP_DATA.xdg_paths), 1)

\* the names and selection values the host reads in the returned entries
HostView(entries) ==
    [i \in 1..Len(entries) |->
        [name |-> c_str_value(entries[i].name), value |-> c_str_value(entries[i].value)]]

AppsView(apps) == [i \in 1..Len(apps) |-> [name |-> apps[i].name, value |-> apps[i].path]]

Got == call.op = "get_entries"

Returned == IF Got THEN HostView(call.val) ELSE <<>>

\* the array without the pointers that satisfy Drop
Without(a, Drop(_)) ==
    IF a = None \/ a.val.paths = None THEN a
    ELSE PathsArray(SelectSeq(Slice(a), LAMBDA ptr : ~Drop(ptr)))

\* Path::starts_with("/tmp"): the path's first component is tmp
UnderTmp(path) ==
    /\ Len(path) >= 4
    /\ SubSeq(path, 1, 4) = <<"/", "t", "m", "p">>
    /\ (Len(path) = 4 \/ path[5] = "/")

to_lowercase(s) == [i \in 1..Len(s) |-> to_ascii_lowercase(s[i])]

Contains(s, sub) ==
    \E k \in 0..(Len(s) - Len(sub)) : SubSeq(s, k + 1, k + Len(sub)) = sub

Matches(name, query) == query = <<>> \/ Contains(to_lowercase(name), to_lowercase(query))

----------------------------------------------------------------------------
(* C1 *)

\* C1: in the catalog of one request the names are unique, and each name of
\* an eligible file of the two lists is listed once, for the earliest-scanned
\* file of that name.
C1_UniqueNames ==
    Got =>
        LET all == Slice(RESP_DATA.local_paths) \o Slice(RESP_DATA.xdg_paths)
        IN  /\ \A i, j \in 1..Len(Returned) :
                  Returned[i].name = Returned[j].name => i = j
            /\ \A k \in 1..Len(all) : FirstOfName(all, k) =>
                  \E i \in 1..Len(Returned) :
                      Returned[i] = [name |-> NameAt(all[k]), value |-> all[k].val]

----------------------------------------------------------------------------
(* C4 *)

\* C4: a hidden or not-for-display descriptor leaves no trace in the scan:
\* the catalog is that of the lists without the hidden files, and an eligible
\* file that follows a hidden file of the same name in a list is listed
\* whenever no eligible file of that name precedes it in the list.
C4_HiddenNeverBlocks ==
    Got =>
        /\ Returned = AppsView(find_apps(Without(RESP_DATA.local_paths, HiddenAt))
                                 \o find_apps(Without(RESP_DATA.xdg_paths, HiddenAt)))
        /\ \A list \in {Slice(RESP_DATA.local_paths), Slice(RESP_DATA.xdg_paths)} :
              \A h, j \in 1..Len(list) :
                  ( /\ h < j
                    /\ HiddenAt(list[h])
                    /\ FirstOfName(list, j)
                    /\ NameAt(list[h]) = NameAt(list[j]) )
                  => \E i \in 1..Len(Returned) : Returned[i].value = list[j].val

C4_Witness ==
    /\ Got
    /\ LET list == Slice(RESP_DATA.local_paths)
       IN  /\ Len(list) = 2
           /\ HiddenAt(list[1])
           /\ Eligible(list[2])
           /\ NameAt(list[1]) = NameAt(list[2])
           /\ \E i \in 1..Len(Returned) : Returned[i].value = list[2].val

----------------------------------------------------------------------------
(* C5 *)

\* C5: the entries returned are the catalog's records whose lower-cased name
\* contains the lower-cased query, in catalog order; all of them when the
\* query is empty or absent.
C5_FilteredByQuery ==
    Got => Returned = SelectSeq(ExpectedCatalog, LAMBDA r : Matches(r.name, call.query))

----------------------------------------------------------------------------
(* C6 *)

\* C6: handle_selection always returns a boolean and never aborts; it returns
\* true exactly when the helper exited with success, and false when the
\* helper failed or could not be started.
C6_LaunchErrorsAreFalse ==
    call.op = "handle_selection" =>
        /\ alive
        /\ call.outcome \in {"true", "false"}
        /\ (call.outcome = "true") <=> (call.gio = "success")

----------------------------------------------------------------------------
(* C7 *)

\* C7: no entry of a returned catalog has a path under /tmp, and every entry
\* is for a regular file that exists.
C7_NothingUnderTmp ==
    Got =>
        /\ alive
        /\ \A i \in 1..Len(Returned) :
              /\ ~UnderTmp(Returned[i].value)
              /\ fs[PathName(Returned[i].value)] # "absent"

----------------------------------------------------------------------------
(* C9 *)

\* C9: a pointer that is null or not UTF-8, and a file that cannot be read or
\* has vanished, are skipped one by one: the call returns, and its result is
\* that of the same scan without them.
C9_BadFilesSkipped ==
    Got =>
        /\ alive
        /\ Returned = AppsView(find_apps(Without(RESP_DATA.local_paths, Unusable))
                                 \o find_apps(Without(RESP_DATA.xdg_paths, Unusable)))

C9_Witness ==
    /\ Got
    /\ \E list \in {Slice(RESP_DATA.local_paths), Slice(RESP_DATA.xdg_paths)} :
          /\ Len(list) = 2
          /\ Unusable(list[1])
          /\ Eligible(list[2])
          /\ \E i \in 1..Len(Returned) : Returned[i].value = list[2].val

----------------------------------------------------------------------------
(* C10 *)

\* C10: whatever calls came before, the entries a get_entries call returns
\* are those the installed path lists and the present files determine:
\* nothing seen or returned by an earlier call blocks or adds an entry.
C10_RebuiltFromScratch == Got => Returned = ExpectedCatalog

C10_Witness ==
    /\ Got
    /\ call.again
    /\ Len(Returned) = 2
    /\ Returned = ExpectedCatalog

====
